---- MODULE Spec2Model ----
(***************************************************************************)
(* Hindi word counter (src/app.py).                                        *)
(*                                                                         *)
(* count_hindi_words_in_pdf opens a PDF from bytes, walks its pages in     *)
(* order, and adds len(HINDI_WORD_REGEX.findall(page.get_text())) to a     *)
(* local running total.  handle_pdf_upload validates the filename, reads   *)
(* the upload, calls the counter inside try/except and fills the template  *)
(* context.                                                                *)
(*                                                                         *)
(* Text is a sequence of Unicode code points (integers).  A byte buffer is *)
(* a record [pdf, pages]: pdf says whether fitz.open accepts the buffer,   *)
(* pages is what the opened document iterates over; a page is              *)
(* [ok, text], ok = FALSE being a page whose loading or text extraction    *)
(* raises.  A filename is a sequence of one-character strings.             *)
(***************************************************************************)
EXTENDS Integers, Sequences, FiniteSets

VARIABLES
    pc,           \* per request: position in handle_pdf_upload / the counter
    filename,     \* pdf_file.filename
    upload,       \* the bytes held by the UploadFile
    file_bytes,   \* local of handle_pdf_upload: <<>> unset, <<buf>> once read
    doc_open,     \* the fitz document of the with-block is open
    page_no,      \* index of the next page of `for page in doc`
    word_count,   \* local of count_hindi_words_in_pdf
    hindi_words,  \* local of count_hindi_words_in_pdf: the last findall result
    total_words,  \* local of handle_pdf_upload: <<>> unset, <<n>> once returned
    context,      \* the template context dict
    reads,        \* number of pdf_file.read() calls made
    calls         \* number of count_hindi_words_in_pdf calls made

vars == <<pc, filename, upload, file_bytes, doc_open, page_no, word_count,
          hindi_words, total_words, context, reads, calls>>

-----------------------------------------------------------------------------
(* Bounds *)

NumReq == 2
MaxLen == 3
MaxPages == 2
MaxPageLen == 3

Reqs == 1..NumReq

SeqsUpTo(S, n) == UNION {[1..k -> S] : k \in 0..n}

-----------------------------------------------------------------------------
(* HINDI_WORD_REGEX = re.compile(r'[\u0900-\u097F]+') *)

RANGE_LO == 2304
RANGE_HI == 2431

\* a class that stops before the danda block U+0964
InCharClassNoDanda(c) == c >= RANGE_LO /\ c < 2404

InCharClass(c) == c >= RANGE_LO /\ c <= RANGE_HI

RECURSIVE Scan(_, _, _, _)
Scan(text, i, cur, acc) ==
    IF i > Len(text)
    THEN IF cur # <<>> THEN Append(acc, cur) ELSE acc
    ELSE IF InCharClass(text[i])
         THEN Scan(text, i + 1, Append(cur, text[i]), acc)
         ELSE Scan(text, i + 1, <<>>, IF cur # <<>> THEN Append(acc, cur) ELSE acc)

\* the pattern without its '+': every class character is a match of its own
RECURSIVE ScanPerChar(_, _, _)
ScanPerChar(text, i, acc) ==
    IF i > Len(text) THEN acc
    ELSE ScanPerChar(text, i + 1,
                     IF InCharClass(text[i]) THEN Append(acc, <<text[i]>>) ELSE acc)

FindallPerChar(text) == ScanPerChar(text, 1, <<>>)

\* the pattern with '*' for '+': an empty match at every position no run covers
RECURSIVE ScanStar(_, _, _, _)
ScanStar(text, i, cur, acc) ==
    IF i > Len(text)
    THEN IF cur # <<>> THEN Append(Append(acc, cur), <<>>) ELSE Append(acc, <<>>)
    ELSE IF InCharClass(text[i])
         THEN ScanStar(text, i + 1, Append(cur, text[i]), acc)
         ELSE ScanStar(text, i + 1, <<>>,
                       IF cur # <<>> THEN Append(acc, cur) ELSE Append(acc, <<>>))

FindallStar(text) == ScanStar(text, 1, <<>>, <<>>)

\* HINDI_WORD_REGEX.findall(text): the matches, left to right
Findall(text) == Scan(text, 1, <<>>, <<>>)

-----------------------------------------------------------------------------
(* count_hindi_words_in_pdf *)

FitzOpens(buf) == buf.pdf

\* counting the concatenation of the pages' text: a run continuing over a page
\* break is counted once
PageCountJoined(pages, i) ==
    IF /\ i > 1
       /\ pages[i - 1].ok
       /\ Len(pages[i - 1].text) > 0
       /\ Len(pages[i].text) > 0
       /\ InCharClass(pages[i - 1].text[Len(pages[i - 1].text)])
       /\ InCharClass(pages[i].text[1])
    THEN Len(Findall(pages[i].text)) - 1
    ELSE Len(Findall(pages[i].text))

\* len(HINDI_WORD_REGEX.findall(page.get_text())) for page i
PageCount(pages, i) == Len(Findall(pages[i].text))

\* a total shared by all invocations
AccumulateShared(wc, r, n) == [q \in DOMAIN wc |-> wc[q] + n]

\* word_count += len(hindi_words)
Accumulate(wc, r, n) == [wc EXCEPT ![r] = @ + n]

\* a document closed on return only
WithExitLeak(open, r, raised) == IF raised THEN open ELSE [open EXCEPT ![r] = FALSE]

\* leaving the with-block, by return or by exception
WithExit(open, r, raised) == [open EXCEPT ![r] = FALSE]

\* The whole call as a function of the page list: <<"raise">> or <<"ok", n>>.
RECURSIVE CountFrom(_, _, _)
CountFrom(pages, i, wc) ==
    IF i > Len(pages) THEN <<"ok", wc>>
    ELSE IF ~pages[i].ok THEN <<"raise">>
    ELSE CountFrom(pages, i + 1, wc + PageCount(pages, i))

RunAlone(buf) == IF FitzOpens(buf) THEN CountFrom(buf.pages, 1, 0) ELSE <<"raise">>

-----------------------------------------------------------------------------
(* handle_pdf_upload *)

ERR_INVALID == "Invalid file type. Please upload a PDF."
ERR_PROCESS == "Could not process the PDF file. It may be corrupt or invalid."

Put(d, k, v) == [x \in DOMAIN d \cup {k} |-> IF x = k THEN v ELSE d[x]]

LowerChar(c) ==
    CASE c = "A" -> "a"
      [] c = "P" -> "p"
      [] c = "D" -> "d"
      [] c = "F" -> "f"
      [] c = "T" -> "t"
      [] c = "X" -> "x"
      [] OTHER -> c

Lower(s) == [i \in 1..Len(s) |-> LowerChar(s[i])]

EndsWith(s, suf) ==
    /\ Len(s) >= Len(suf)
    /\ \A i \in 1..Len(suf) : s[Len(s) - Len(suf) + i] = suf[i]

DOT_PDF == <<".", "p", "d", "f">>

\* the check without .lower()
AcceptsCaseSensitive(fn) == EndsWith(fn, DOT_PDF)

\* pdf_file.filename.lower().endswith('.pdf')
Accepts(fn) == EndsWith(Lower(fn), DOT_PDF)

\* the except branch answering a count of zero
ExceptContextZero(ctx, wc) == Put(ctx, "word_count", 0)

\* the except branch also publishing the pages counted so far
ExceptContextPartial(ctx, wc) == Put(Put(ctx, "error", ERR_PROCESS), "word_count", wc)

\* context["error"] = "Could not process ..."
ExceptContext(ctx, wc) == Put(ctx, "error", ERR_PROCESS)

\* the filename stored as it was compared
SuccessContextLower(ctx, total, fn) ==
    Put(Put(ctx, "word_count", total), "filename", Lower(fn))

\* context["word_count"] = total_words; context["filename"] = pdf_file.filename
SuccessContext(ctx, total, fn) ==
    Put(Put(ctx, "word_count", total), "filename", fn)

\* line 58-60: the filename check
Validate(r) ==
    /\ pc[r] = "start"
    /\ IF Accepts(filename[r])
       THEN /\ pc' = [pc EXCEPT ![r] = "read"]
            /\ UNCHANGED context
       ELSE /\ context' = [context EXCEPT ![r] = Put(@, "error", ERR_INVALID)]
            /\ pc' = [pc EXCEPT ![r] = "done"]
    /\ UNCHANGED <<filename, upload, file_bytes, doc_open, page_no, word_count,
                   hindi_words, total_words, reads, calls>>

\* line 64: file_bytes = await pdf_file.read()
ReadReturns(r) ==
    /\ pc[r] = "read"
    /\ reads' = [reads EXCEPT ![r] = @ + 1]
    /\ file_bytes' = [file_bytes EXCEPT ![r] = <<upload[r]>>]
    /\ pc' = [pc EXCEPT ![r] = "call"]
    /\ UNCHANGED <<filename, upload, doc_open, page_no, word_count, hindi_words,
                   total_words, context, calls>>

\* line 64: the read raises
ReadRaises(r) ==
    /\ pc[r] = "read"
    /\ reads' = [reads EXCEPT ![r] = @ + 1]
    /\ pc' = [pc EXCEPT ![r] = "raised"]
    /\ UNCHANGED <<filename, upload, file_bytes, doc_open, page_no, word_count,
                   hindi_words, total_words, context, calls>>

\* lines 67, 24-26: the call, word_count = 0, fitz.open
Open(r) ==
    /\ pc[r] = "call"
    /\ calls' = [calls EXCEPT ![r] = @ + 1]
    /\ word_count' = [word_count EXCEPT ![r] = 0]
    /\ IF FitzOpens(file_bytes[r][1])
       THEN /\ doc_open' = [doc_open EXCEPT ![r] = TRUE]
            /\ page_no' = [page_no EXCEPT ![r] = 1]
            /\ pc' = [pc EXCEPT ![r] = "loop"]
       ELSE /\ pc' = [pc EXCEPT ![r] = "raised"]
            /\ UNCHANGED <<doc_open, page_no>>
    /\ UNCHANGED <<filename, upload, file_bytes, hindi_words, total_words,
                   context, reads>>

\* lines 28-32: one iteration of the page loop
Page(r) ==
    /\ pc[r] = "loop"
    /\ page_no[r] <= Len(file_bytes[r][1].pages)
    /\ LET pages == file_bytes[r][1].pages
           i == page_no[r]
       IN IF pages[i].ok
          THEN /\ hindi_words' = [hindi_words EXCEPT ![r] = Findall(pages[i].text)]
               /\ word_count' = Accumulate(word_count, r, PageCount(pages, i))
               /\ page_no' = [page_no EXCEPT ![r] = i + 1]
               /\ UNCHANGED <<pc, doc_open>>
          ELSE /\ doc_open' = WithExit(doc_open, r, TRUE)
               /\ pc' = [pc EXCEPT ![r] = "raised"]
               /\ UNCHANGED <<hindi_words, word_count, page_no>>
    /\ UNCHANGED <<filename, upload, file_bytes, total_words, context, reads, calls>>

\* line 33, 67: the loop is over; return word_count into total_words
Return(r) ==
    /\ pc[r] = "loop"
    /\ page_no[r] > Len(file_bytes[r][1].pages)
    /\ doc_open' = WithExit(doc_open, r, FALSE)
    /\ total_words' = [total_words EXCEPT ![r] = <<word_count[r]>>]
    /\ pc' = [pc EXCEPT ![r] = "returned"]
    /\ UNCHANGED <<filename, upload, file_bytes, page_no, word_count, hindi_words,
                   context, reads, calls>>

\* lines 70-71, 78
Success(r) ==
    /\ pc[r] = "returned"
    /\ context' = [context EXCEPT ![r] = SuccessContext(@, total_words[r][1], filename[r])]
    /\ pc' = [pc EXCEPT ![r] = "done"]
    /\ UNCHANGED <<filename, upload, file_bytes, doc_open, page_no, word_count,
                   hindi_words, total_words, reads, calls>>

\* lines 73-78
Except(r) ==
    /\ pc[r] = "raised"
    /\ context' = [context EXCEPT ![r] = ExceptContext(@, word_count[r])]
    /\ pc' = [pc EXCEPT ![r] = "done"]
    /\ UNCHANGED <<filename, upload, file_bytes, doc_open, page_no, word_count,
                   hindi_words, total_words, reads, calls>>

Step(r) ==
    \/ Validate(r)
    \/ ReadReturns(r)
    \/ ReadRaises(r)
    \/ Open(r)
    \/ Page(r)
    \/ Return(r)
    \/ Success(r)
    \/ Except(r)

Next == \E r \in Reqs : Step(r)

-----------------------------------------------------------------------------
(* Inputs *)

CP == [h |-> 2352, danda |-> 2404, sp |-> 32, dot |-> 46,
       below |-> 2303, lo |-> 2304, hi |-> 2431, above |-> 2432]

NotPdf == [pdf |-> FALSE, pages |-> <<>>]
TextPage(t) == [ok |-> TRUE, text |-> t]
BrokenPage == [ok |-> FALSE, text |-> <<>>]
Pdf(ps) == [pdf |-> TRUE, pages |-> ps]

RamDanda == <<2352, 2366, 2350, 2404>>
HelloWorld == <<2361, 2376, 2354, 2379, 32, 104, 101, 108, 108, 111, 32,
                2357, 2352, 2381, 2354, 2381, 2337>>
NamasteDuniya == <<2344, 2350, 2360, 2381, 2340, 2375, 32,
                   2342, 2369, 2344, 2367, 2351, 2366>>

A_PDF == <<"a", ".", "p", "d", "f">>

Filenames ==
    { A_PDF, <<"a", ".", "P", "D", "F">>,
      <<"A", ".", "P", "d", "f">>, <<".", "p", "d", "f">>,
      <<"p", "d", "f">>, <<"a", ".", "p", "d", "f", "x">>,
      <<"a", ".", "t", "x", "t">>, <<>>,
      <<"a", "p", "d", "f">>, <<".", "p", "d", "f", ".", "t", "x", "t">> }

\* multi-page documents over a small alphabet
PageSet == {TextPage(t) : t \in SeqsUpTo({CP.h, CP.sp}, MaxPageLen)} \cup {BrokenPage}
Docs == {Pdf(ps) : ps \in SeqsUpTo(PageSet, MaxPages)} \cup {NotPdf}

\* one-page documents over the class boundaries, plus the named examples
TextChars == {CP.below, CP.lo, CP.h, CP.danda, CP.hi, CP.above, CP.dot}
Texts == SeqsUpTo(TextChars, MaxLen) \cup {RamDanda, HelloWorld, NamasteDuniya}
TextDocs == {Pdf(<<TextPage(t)>>) : t \in Texts}

\* a few documents, for the runs that vary the filename or the interleaving
FewDocs ==
    { NotPdf, Pdf(<<>>),
      Pdf(<<TextPage(<<CP.h>>), TextPage(<<CP.h, CP.sp, CP.h>>)>>),
      Pdf(<<TextPage(<<CP.h, CP.h>>), BrokenPage>>),
      Pdf(<<TextPage(<<CP.sp>>), TextPage(<<CP.h>>)>>) }

Input(fn, up) == [fn |-> fn, up |-> up]

\* every filename with a few documents; one accepted filename with every document
Inputs ==
    {Input(fn, up) : fn \in Filenames, up \in FewDocs}
        \cup {Input(A_PDF, up) : up \in Docs \cup TextDocs}

ConcInputs == {Input(fn, up) : fn \in {A_PDF, <<"a", ".", "t", "x", "t">>}, up \in FewDocs}

InitWith(live, inputs) ==
    /\ \E f \in [live -> inputs] :
          /\ filename = [r \in Reqs |-> IF r \in live THEN f[r].fn ELSE <<>>]
          /\ upload = [r \in Reqs |-> IF r \in live THEN f[r].up ELSE NotPdf]
    /\ pc = [r \in Reqs |-> IF r \in live THEN "start" ELSE "off"]
    /\ file_bytes = [r \in Reqs |-> <<>>]
    /\ doc_open = [r \in Reqs |-> FALSE]
    /\ page_no = [r \in Reqs |-> 0]
    /\ word_count = [r \in Reqs |-> 0]
    /\ hindi_words = [r \in Reqs |-> <<>>]
    /\ total_words = [r \in Reqs |-> <<>>]
    /\ context = [r \in Reqs |-> [request |-> r]]
    /\ reads = [r \in Reqs |-> 0]
    /\ calls = [r \in Reqs |-> 0]

\* one request
Init == InitWith({1}, Inputs)
Spec == Init /\ [][Next]_vars

\* NumReq requests in flight together
InitConc == InitWith(Reqs, ConcInputs)
SpecConc == InitConc /\ [][Next]_vars

-----------------------------------------------------------------------------
(* Properties *)

\* the Devanagari block U+0900..U+097F, as the specification words it
InBlock(c) == c \in 2304..2431

\* the positions where a maximal run of block characters starts
RunStarts(t) == {i \in 1..Len(t) : InBlock(t[i]) /\ (i = 1 \/ ~InBlock(t[i - 1]))}

RunsOfPage(p) == Cardinality(RunStarts(p.text))

RECURSIVE SumOfRuns(_, _)
SumOfRuns(pages, i) ==
    IF i > Len(pages) THEN 0 ELSE RunsOfPage(pages[i]) + SumOfRuns(pages, i + 1)

Returned(r) == total_words[r] # <<>>

\* C1: whenever the counter returns, the value returned is the sum over the
\* pages, in order, of the number of maximal runs of characters of
\* U+0900..U+097F in the page's text; a run counts once whatever its length
\* and characters outside the range count nothing.
C1_SumOfMaximalRuns ==
    \A r \in Reqs :
        Returned(r) => total_words[r][1] = SumOfRuns(upload[r].pages, 1)

C1_Witness ==
    \E r \in Reqs :
        /\ Returned(r)
        /\ Len(upload[r].pages) = 2
        /\ upload[r].pages[1].text = <<CP.h, CP.sp, CP.h>>
        /\ upload[r].pages[2].text = <<CP.h, CP.h, CP.h>>
        /\ total_words[r][1] = 3

\* C2: a buffer fitz.open rejects never makes the counter return an integer,
\* zero included: once the counter was called on it, no count is returned, the
\* context never carries word_count, and the finished response carries the
\* could-not-process message.
C2_NonPdfIsAnError ==
    \A r \in Reqs :
        (calls[r] > 0 /\ ~upload[r].pdf) =>
            /\ ~Returned(r)
            /\ "word_count" \notin DOMAIN context[r]
            /\ pc[r] = "done" =>
                 /\ "error" \in DOMAIN context[r]
                 /\ context[r]["error"] = ERR_PROCESS

C2_Witness ==
    \E r \in Reqs :
        /\ pc[r] = "done"
        /\ calls[r] = 1
        /\ ~upload[r].pdf
        /\ "error" \in DOMAIN context[r]

OnePageCount(p) == RunAlone(Pdf(<<p>>))[2]

RECURSIVE SumOfOnePageCounts(_, _)
SumOfOnePageCounts(pages, i) ==
    IF i > Len(pages) THEN 0
    ELSE OnePageCount(pages[i]) + SumOfOnePageCounts(pages, i + 1)

\* C3: the count returned for a document equals the sum of the counts the
\* counter returns for each of its pages taken as a one-page document, also
\* when a run ends one page and another starts the next.
C3_SumOfIndependentPages ==
    \A r \in Reqs :
        Returned(r) => total_words[r][1] = SumOfOnePageCounts(upload[r].pages, 1)

C3_Witness ==
    \E r \in Reqs :
        /\ Returned(r)
        /\ Len(upload[r].pages) = 2
        /\ upload[r].pages[1].text = <<CP.sp, CP.h>>
        /\ upload[r].pages[2].text = <<CP.h, CP.sp>>
        /\ total_words[r][1] = 2

IsOnePage(r) == upload[r].pdf /\ Len(upload[r].pages) = 1 /\ upload[r].pages[1].ok

\* C4 as stated: the text "ram danda" (U+0930 U+093E U+092E U+0964) counts as
\* one word and the danda is not part of the matched run.
C4_DandaExcluded ==
    \A r \in Reqs :
        (Returned(r) /\ IsOnePage(r) /\ upload[r].pages[1].text = RamDanda) =>
            /\ total_words[r][1] = 1
            /\ \A m \in 1..Len(hindi_words[r]) :
                 \A j \in 1..Len(hindi_words[r][m]) : hindi_words[r][m][j] # CP.danda

\* a run of block characters w followed by one mark p
RunThenMark(t) ==
    /\ Len(t) >= 2
    /\ \A i \in 1..(Len(t) - 1) : InBlock(t[i])

\* C4 (amended): a one-page text made of a run of block characters followed by
\* one mark counts as exactly one word; a mark outside U+0900..U+097F is
\* excluded from the matched run, but the danda U+0964 lies inside the range
\* and is part of the matched run ("ram danda" is matched whole).
C4_DandaIsInTheRun ==
    \A r \in Reqs :
        (Returned(r) /\ IsOnePage(r) /\ RunThenMark(upload[r].pages[1].text)) =>
            LET t == upload[r].pages[1].text
                p == t[Len(t)]
            IN /\ total_words[r][1] = 1
               /\ (p = CP.danda \/ InBlock(p)) => hindi_words[r] = <<t>>
               /\ ~InBlock(p) => hindi_words[r] = <<SubSeq(t, 1, Len(t) - 1)>>

C4_Witness ==
    \E r \in Reqs :
        /\ Returned(r)
        /\ IsOnePage(r)
        /\ upload[r].pages[1].text = RamDanda
        /\ hindi_words[r] = <<RamDanda>>
        /\ total_words[r][1] = 1

NoBlockChar(buf) ==
    \A i \in 1..Len(buf.pages) :
        \A j \in 1..Len(buf.pages[i].text) : ~InBlock(buf.pages[i].text[j])

\* C5: every value the counter returns is a non-negative integer, and it is 0
\* for a document none of whose pages holds a character of U+0900..U+097F
\* (no page, or empty pages, included).
C5_ZeroWithoutDevanagari ==
    \A r \in Reqs :
        Returned(r) =>
            /\ total_words[r][1] \in Nat
            /\ NoBlockChar(upload[r]) => total_words[r][1] = 0

C5_Witness ==
    \E r \in Reqs :
        /\ Returned(r)
        /\ Len(upload[r].pages) = 2
        /\ upload[r].pages[1].text = <<CP.sp, CP.sp>>
        /\ upload[r].pages[2].text = <<>>
        /\ upload[r].pages[2].ok
        /\ total_words[r][1] = 0

\* the read raised, or the counter raised
HasFailed(r) ==
    \/ reads[r] = 1 /\ file_bytes[r] = <<>> /\ pc[r] \in {"raised", "done"}
    \/ calls[r] = 1 /\ ~Returned(r) /\ pc[r] \in {"raised", "done"}

\* C6: after the read or the counter raised, the finished response carries
\* the could-not-process message and neither word_count nor filename; no
\* context ever carries both an error and a word_count.
C6_NoPartialResult ==
    \A r \in Reqs :
        /\ ~({"error", "word_count"} \subseteq DOMAIN context[r])
        /\ (HasFailed(r) /\ pc[r] = "done") =>
             /\ DOMAIN context[r] = {"request", "error"}
             /\ context[r]["error"] = ERR_PROCESS

C6_Witness ==
    \E r \in Reqs :
        /\ pc[r] = "done"
        /\ HasFailed(r)
        /\ calls[r] = 1
        /\ word_count[r] > 0
        /\ page_no[r] = 2

\* ends in ".pdf", whatever the case of the letters
EndsPdfAnyCase(fn) ==
    /\ Len(fn) >= 4
    /\ fn[Len(fn) - 3] = "."
    /\ fn[Len(fn) - 2] \in {"p", "P"}
    /\ fn[Len(fn) - 1] \in {"d", "D"}
    /\ fn[Len(fn)] \in {"f", "F"}

\* C7 as stated: a filename not ending in ".pdf" (any case) gets the
\* invalid-file-type error with no read and no call of the counter, and every
\* accepted filename gets the counter called exactly once.
C7_CalledExactlyOnce ==
    \A r \in Reqs :
        /\ ~EndsPdfAnyCase(filename[r]) =>
             /\ reads[r] = 0
             /\ calls[r] = 0
             /\ pc[r] = "done" => context[r] = [request |-> r, error |-> ERR_INVALID]
        /\ (EndsPdfAnyCase(filename[r]) /\ pc[r] = "done") => calls[r] = 1

\* C7 (amended): a filename not ending in ".pdf" (any case) gets the
\* invalid-file-type error with no read and no call of the counter; an
\* accepted filename gets the upload read exactly once and the counter called
\* at most once: exactly once when the read returned, not at all when it raised.
C7_ValidatedBeforeCore ==
    \A r \in Reqs :
        /\ ~EndsPdfAnyCase(filename[r]) =>
             /\ reads[r] = 0
             /\ calls[r] = 0
             /\ pc[r] = "done" => context[r] = [request |-> r, error |-> ERR_INVALID]
        /\ (EndsPdfAnyCase(filename[r]) /\ pc[r] = "done") =>
             /\ reads[r] = 1
             /\ calls[r] = (IF file_bytes[r] # <<>> THEN 1 ELSE 0)
             /\ ("error" \in DOMAIN context[r]) => context[r]["error"] # ERR_INVALID

C7_Witness ==
    \E r \in Reqs :
        /\ pc[r] = "done"
        /\ filename[r] = <<"a", ".", "P", "D", "F">>
        /\ reads[r] = 1
        /\ calls[r] = 1

\* C8: with the page steps of several invocations interleaved in any order,
\* each invocation's running total is what it is when the invocation runs
\* alone, and so is the count it returns.
C8_IndependentInvocations ==
    \A r \in Reqs :
        /\ pc[r] = "loop" =>
             <<"ok", word_count[r]>> =
                 CountFrom(SubSeq(upload[r].pages, 1, page_no[r] - 1), 1, 0)
        /\ Returned(r) => <<"ok", total_words[r][1]>> = RunAlone(upload[r])

C8_Witness ==
    \E r, q \in Reqs :
        /\ r # q
        /\ Returned(r)
        /\ total_words[r][1] = 3
        /\ pc[q] = "loop"
        /\ page_no[q] = 2
        /\ word_count[q] = 1

\* C9: no step changes the uploaded bytes, the buffer handed to the counter is
\* those bytes and stays so, and once the call has ended, by return or by
\* exception, the document is closed.
C9_NoSideEffects ==
    [][\A r \in Reqs :
          /\ upload'[r] = upload[r]
          /\ file_bytes'[r] # <<>> => file_bytes'[r] = <<upload[r]>>
          /\ pc'[r] \in {"returned", "raised", "done"} => ~doc_open'[r]]_vars

C9_Witness ==
    \E r \in Reqs :
        /\ pc[r] = "raised"
        /\ calls[r] = 1
        /\ upload[r].pdf
        /\ page_no[r] = 2
        /\ ~doc_open[r]

\* C10: a request that has not finished can always take a step of the
\* handler, and a finished one carries exactly one of: the invalid-file-type
\* error; the could-not-process error; or, with no error, the uploaded
\* filename and a word_count equal to the counter's result for the upload.
C10_ThreeOutcomes ==
    \A r \in Reqs :
        /\ pc[r] \notin {"done", "off"} => ENABLED Step(r)
        /\ pc[r] = "done" =>
             \/ context[r] = [request |-> r, error |-> ERR_INVALID]
             \/ context[r] = [request |-> r, error |-> ERR_PROCESS]
             \/ /\ DOMAIN context[r] = {"request", "word_count", "filename"}
                /\ <<"ok", context[r]["word_count"]>> = RunAlone(upload[r])
                /\ context[r]["filename"] = filename[r]

C10_Witness ==
    \E r \in Reqs :
        /\ pc[r] = "done"
        /\ filename[r] = <<"A", ".", "P", "d", "f">>
        /\ "word_count" \in DOMAIN context[r]
        /\ context[r]["word_count"] = 3

====
